---- MODULE Spec2Model ----
(***************************************************************************)
(* Model of the client-side batched-mutation layer of health-todo-app     *)
(* (lib/supabase.ts): class BatchQueue and the two api entry points that   *)
(* enqueue onto it, deleteMission and uncompleteMission.                   *)
(*                                                                         *)
(* One step of the model is one run-to-completion step of the JavaScript   *)
(* event loop: a call of add (with the synchronous part of process that it *)
(* runs), the continuation after `await Promise.all(...)`, the             *)
(* continuation after the 10 ms timer, or the settling of one operation.   *)
(***************************************************************************)
EXTENDS Integers, Sequences, FiniteSets

\* ---------------------------------------------------------------- bounds
\* the last instant of the clock in a behaviour of CacheSpec
MaxTime == 2
\* number of add calls in a behaviour of Spec / LiveSpec
MaxOps == 4
\* largest number of consecutive add calls in a behaviour of BurstSpec
MaxBurst == 12

\* ------------------------------------------------------ program constants
\* private batchSize = 10
batchSize == 10

VARIABLES
  queue,       \* BatchQueue.queue: the operations not yet taken into a round
  processing,  \* BatchQueue.processing
  loops,       \* the invocations of process() suspended at an await
  nloops,      \* number of invocations of process() that passed the guard
  ops,         \* every operation passed to add, in the order of the add calls
  rounds,      \* number of rounds started (iterations of the while loop)
  started,     \* the operations in the order in which they were invoked
  budget,      \* number of add calls still to be made
  burst,       \* BurstSpec: the number M of consecutive add calls, else 0
  cache,       \* DataCache.cache: key -> [data, timestamp, ttl]
  now,         \* Date.now()
  last,        \* the last DataCache / api call: what it was given and returned
  lastSet,     \* per key, the last set that no delete / clear / invalidate followed
  remoteMissions,     \* the table user_missions of the remote store
  remoteCompletions,  \* the rows of mission_completions of today
  nextId,      \* the id that the remote store gives to the next row
  calls,       \* the calls of the api functions, in the order of the calls
  held,        \* which mission list the remote store held for a user, and when
  apiBudget,   \* number of api calls still to be made
  pending,     \* the record pendingOperations of localStorage
  syncs,       \* the calls of syncPendingOperations, in the order of the calls
  syncBudget,  \* number of 'online' events still to come
  uiMissions,     \* TodoApp: the state `missions`
  uiCompletions,  \* TodoApp: the state `completions`
  handlers,    \* TodoApp: the handlers and loads that were started
  rtMissions,     \* realtime events of user_missions not yet delivered
  rtCompletions,  \* realtime events of mission_completions not yet delivered
  uiBudget,    \* number of clicks and realtime events still to come
  profiles,    \* the users who have a row in the table profiles
  ensures,     \* the calls of ensureProfile, in the order of the calls
  ensureBudget,   \* number of calls of ensureProfile still to be made
  clock,       \* useThrottle: Date.now()
  lastExecutedRef,  \* useThrottle: lastExecutedRef.current
  timeoutRef,  \* useThrottle: the pending timer of timeoutRef.current
  executions,  \* useThrottle: the times at which func was executed
  throttleBudget  \* number of calls of the throttled function still to come

batchVars == <<queue, processing, loops, nloops, ops, rounds, started, budget, burst>>
cacheVars == <<cache, now, last, lastSet>>
apiVars == <<remoteMissions, remoteCompletions, nextId, calls, held, apiBudget>>
syncVars == <<pending, syncs, syncBudget>>
uiVars == <<uiMissions, uiCompletions, handlers, rtMissions, rtCompletions,
            uiBudget>>
profileVars == <<profiles, ensures, ensureBudget>>
throttleVars == <<clock, lastExecutedRef, timeoutRef, executions, throttleBudget>>
homeVars == <<profileVars, throttleVars>>
appVars == <<uiVars, homeVars>>
vars == <<queue, processing, loops, nloops, ops, rounds, started, budget, burst,
          cache, now, last, lastSet,
          remoteMissions, remoteCompletions, nextId, calls, held, apiBudget,
          pending, syncs, syncBudget,
          uiMissions, uiCompletions, handlers, rtMissions, rtCompletions,
          uiBudget,
          profiles, ensures, ensureBudget,
          clock, lastExecutedRef, timeoutRef, executions, throttleBudget>>

\* the shapes of operation: the closure built by deleteMission /
\* uncompleteMission whose remote delete answers ("api"), the same closure
\* whose network call never answers ("hang"), or any other function
\* returning a promise, which is fulfilled or rejected ("raw")
Kinds == {"api", "raw", "hang"}
SettlingKinds == {"api", "raw"}
Outcomes == {"ok", "error"}

Min(a, b) == IF a < b THEN a ELSE b

Range(s) == {s[i] : i \in DOMAIN s}

CeilDiv(a, b) == (a + b - 1) \div b

\* ------------------------------------------------------------- DataCache
\* `new Map()`: the map with no key
EmptyMap == [k \in {} |-> <<>>]

\* an absent result (null) and a present one
Null == <<>>
Some(v) == <<v>>

\* const dataCache = new DataCache(), before any call
CacheInit ==
  /\ cache = EmptyMap
  /\ now = 0
  /\ last = [op |-> "none"]
  /\ lastSet = EmptyMap

\* Map.prototype.set and Map.prototype.delete
MapSet(m, k, e) == [x \in DOMAIN m \cup {k} |-> IF x = k THEN e ELSE m[x]]
MapDelete(m, k) == [x \in DOMAIN m \ {k} |-> m[x]]

\* set(key, data, ttl): the entry takes the time of the call
\* (faulty variant: an entry that exists keeps its timestamp)
SetEntryKeepTimestamp(m, k, d, ttl, t) ==
  MapSet(m, k, [data |-> d,
                timestamp |-> IF k \in DOMAIN m THEN m[k].timestamp ELSE t,
                ttl |-> ttl])
SetEntry(m, k, d, ttl, t) ==
  MapSet(m, k, [data |-> d, timestamp |-> t, ttl |-> ttl])

\* `Date.now() - cached.timestamp > cached.ttl`
\* (faulty variant: >= in place of >)
ExpiredAtBoundary(e, t) == t - e.timestamp >= e.ttl
Expired(e, t) == t - e.timestamp > e.ttl

\* get(key): the value returned at the time t
GetResult(m, k, t) ==
  IF k \notin DOMAIN m THEN Null
  ELSE IF Expired(m[k], t) THEN Null
  ELSE Some(m[k].data)

\* get(key): the map that the call leaves (an expired entry is deleted)
\* (faulty variant: the expired entry stays)
GetEffectKeep(m, k, t) == m
GetEffect(m, k, t) ==
  IF k \in DOMAIN m /\ Expired(m[k], t) THEN MapDelete(m, k) ELSE m

\* delete(key)
\* (faulty variant: the map is cleared)
DeleteEntryAll(m, k) == EmptyMap
DeleteEntry(m, k) == MapDelete(m, k)

\* clear(), called at the time t
\* (faulty variant: only the expired entries go)
ClearExpired(m, t) == [x \in {k \in DOMAIN m : ~Expired(m[k], t)} |-> m[x]]
ClearAll(m, t) == EmptyMap

\* key.includes(pattern): pattern is a contiguous part of key
\* (faulty variant: startsWith)
IncludesPrefix(key, p) == Len(p) <= Len(key) /\ SubSeq(key, 1, Len(p)) = p
Includes(key, p) ==
  \E i \in 1..(Len(key) - Len(p) + 1) : SubSeq(key, i, i + Len(p) - 1) = p

\* invalidatePattern(pattern)
InvalidatePattern(m, p) == [x \in {k \in DOMAIN m : ~Includes(k, p)} |-> m[x]]

\* the keys that the api builds: `missions:${userId}` and
\* `completions:${userId}:${today}`, as sequences of characters
U1 == <<"u", "1">>
U2 == <<"u", "2">>
Today == <<"2", "0", "2", "4", "-", "0", "1", "-", "0", "1">>
MissionsPrefix == <<"m", "i", "s", "s", "i", "o", "n", "s", ":">>
CompletionsPrefix == <<"c", "o", "m", "p", "l", "e", "t", "i", "o", "n", "s", ":">>
MissionsKey(u) == MissionsPrefix \o u
CompletionsKey(u, d) == CompletionsPrefix \o u \o <<":">> \o d

\* the key that ensureProfile builds: `profile:${user.id}`
ProfilePrefix == <<"p", "r", "o", "f", "i", "l", "e", ":">>
ProfileKey(u) == ProfilePrefix \o u

\* the calls of DataCache made in CacheSpec: keys, values, ttls, patterns
Keys == {MissionsKey(U1), MissionsKey(U2), CompletionsKey(U1, Today)}
Values == {<<1>>, <<2>>}
Ttls == {0, 1}
Patterns == {U1, MissionsPrefix, <<"u">>, <<"u", "3">>, <<>>}

\* what `last` keeps of a call: the arguments, the time, the map before the
\* call and the value returned
Call(o, k, a, r) ==
  [op |-> o, key |-> k, arg |-> a, at |-> now, pre |-> cache, ret |-> r]

set(k, d, ttl) ==
  /\ cache' = SetEntry(cache, k, d, ttl, now)
  /\ lastSet' = MapSet(lastSet, k, [data |-> d, timestamp |-> now, ttl |-> ttl])
  /\ last' = Call("set", k, <<d, ttl>>, Null)
  /\ UNCHANGED now

get(k) ==
  /\ cache' = GetEffect(cache, k, now)
  /\ last' = Call("get", k, <<>>, GetResult(cache, k, now))
  /\ UNCHANGED <<now, lastSet>>

delete(k) ==
  /\ cache' = DeleteEntry(cache, k)
  /\ lastSet' = MapDelete(lastSet, k)
  /\ last' = Call("delete", k, <<>>, Null)
  /\ UNCHANGED now

clear ==
  /\ cache' = ClearAll(cache, now)
  /\ lastSet' = EmptyMap
  /\ last' = Call("clear", <<>>, <<>>, Null)
  /\ UNCHANGED now

invalidatePattern(p) ==
  /\ cache' = InvalidatePattern(cache, p)
  /\ lastSet' = [x \in {k \in DOMAIN lastSet : ~Includes(k, p)} |-> lastSet[x]]
  /\ last' = Call("invalidatePattern", p, <<>>, Null)
  /\ UNCHANGED now

\* time passes
Tick ==
  /\ now < MaxTime
  /\ now' = now + 1
  /\ UNCHANGED <<cache, last, lastSet>>

\* -------------------------------------------------------------------- api
\* set(key, data): `ttl: number = 300000`, and the ttl that
\* getTodayCompletions / completeMission pass
defaultTtl == 300000
completionsTtl == 60000

\* no api call was made and the remote store is empty
ApiIdle ==
  /\ remoteMissions = <<>>
  /\ remoteCompletions = <<>>
  /\ nextId = 1
  /\ calls = <<>>
  /\ held = {}
  /\ apiBudget = 0

\* localStorage holds no record pendingOperations and no sync was started
SyncIdle ==
  /\ pending = Null
  /\ syncs = <<>>
  /\ syncBudget = 0

\* ensureProfile was not called, and the throttled function neither
ProfileIdle ==
  /\ profiles = {}
  /\ ensures = <<>>
  /\ ensureBudget = 0

ThrottleIdle ==
  /\ clock = 0
  /\ lastExecutedRef = 0
  /\ timeoutRef = Null
  /\ executions = <<>>
  /\ throttleBudget = 0

HomeIdle == ProfileIdle /\ ThrottleIdle

\* TodoApp is not mounted
UiIdle ==
  /\ uiMissions = <<>>
  /\ uiCompletions = <<>>
  /\ handlers = <<>>
  /\ rtMissions = 0
  /\ rtCompletions = 0
  /\ uiBudget = 0

AppIdle == UiIdle /\ HomeIdle

\* ------------------------------------------------------------ BatchQueue
\* queue.splice(0, batchSize): how many elements leave the head of the queue
\* (faulty variants: splice(0, batchSize - 1) and splice(0))
SpliceCountShort(q) == Min(batchSize - 1, Len(q))
SpliceCountAll(q) == Len(q)
SpliceCount(q) == Min(batchSize, Len(q))

\* the value of queue.splice(0, batchSize): the removed head
Batch(q) == SubSeq(q, 1, SpliceCount(q))

\* the queue that splice leaves behind
\* (faulty variant: slice, which removes nothing)
RemainderSlice(q) == q
Remainder(q) == SubSeq(q, SpliceCount(q) + 1, Len(q))

\* process(): `if (this.processing || this.queue.length === 0) return`
\* (faulty variant: the processing test left out)
ProcessReturnsNoFlag(p, q) == Len(q) = 0
ProcessReturns(p, q) == p \/ Len(q) = 0

\* the loop condition `while (this.queue.length > 0)`; first tells the test
\* made on entering the loop from the later ones
\* (faulty variant: `if` in place of `while`)
LoopContinuesOnce(q, first) == first /\ Len(q) > 0
LoopContinues(q, first) == Len(q) > 0

\* `this.processing = false` after the loop
\* (faulty variant: the flag is not reset)
ProcessingAfterLoopStuck(p) == p
ProcessingAfterLoop(p) == FALSE

\* the operation record created by a call of add
NewOp(k, lid, at) ==
  [kind    |-> k,
   st      |-> "queued",     \* the promise returned by op(): queued, running,
                             \* resolved or rejected
   remote  |-> "none",       \* the remote delete of an api / hang operation
   caller  |-> IF k = "raw" THEN "none" ELSE "pending",
   calls   |-> 0,            \* how many times op() was invoked
   settles |-> 0,            \* how many times resolve / reject was called
   addedIn |-> lid,          \* the drain loop active when add returned
   addedAt |-> at,           \* where the queue was when add was called
   startedBy |-> 0,          \* the drain loop that invoked the operation
   round   |-> 0]            \* the round in which it was invoked

\* batch.map(op => op()): every member of the batch is invoked; an api
\* operation issues its remote call before its first await
Invoke(o, batch, lid, r) ==
  [i \in DOMAIN o |->
     IF i \in Range(batch)
       THEN [o[i] EXCEPT !.st = "running",
                         !.calls = @ + 1,
                         !.remote = IF o[i].kind = "raw" THEN @ ELSE "pending",
                         !.startedBy = lid,
                         !.round = r]
       ELSE o[i]]

\* one pass through the head of the while loop of process(), for the loop
\* lid, with the queue q, the operations o and the flag p; others are the
\* other loops; first tells the pass that follows `this.processing = true`
LoopHead(q, o, lid, others, p, first) ==
  IF LoopContinues(q, first)
    THEN LET batch == Batch(q) IN
         /\ queue' = Remainder(q)
         /\ ops' = Invoke(o, batch, lid, rounds + 1)
         /\ loops' = others \cup {[id |-> lid, pc |-> "awaitAll", batch |-> batch]}
         /\ rounds' = rounds + 1
         /\ started' = started \o batch
         /\ processing' = p
    ELSE /\ queue' = q
         /\ ops' = o
         /\ loops' = others
         /\ processing' = ProcessingAfterLoop(p)
         /\ UNCHANGED <<rounds, started>>

\* where the single drain loop stands: "idle", "awaitAll" or "pause"
QueuePhase == IF loops = {} THEN "idle" ELSE (CHOOSE l \in loops : TRUE).pc

\* add(operation): push, then process() up to its first await
add(k) ==
  /\ budget > 0
  /\ budget' = budget - 1
  /\ UNCHANGED burst
  /\ LET q1 == Append(queue, Len(ops) + 1) IN
     IF ProcessReturns(processing, q1)
       THEN /\ queue' = q1
            /\ ops' = Append(ops, NewOp(k, nloops, QueuePhase))
            /\ UNCHANGED <<processing, loops, nloops, rounds, started>>
       ELSE /\ nloops' = nloops + 1
            /\ LoopHead(q1, Append(ops, NewOp(k, nloops + 1, QueuePhase)),
                        nloops + 1, loops, TRUE, TRUE)

\* Promise.all(batch.map(...)) is fulfilled once every member is fulfilled
\* and rejected as soon as one member is rejected
PromiseAllSettled(batch) ==
  \/ \A i \in Range(batch) : ops[i].st = "resolved"
  \/ \E i \in Range(batch) : ops[i].st = "rejected"

\* `try { await Promise.all(...) } catch (error) { console.error(...) }`:
\* fulfilled or rejected, the loop l goes on to the pause
\* (faulty variant: no try/catch, a rejection ends process())
LoopAfterAwaitNoCatch(l) ==
  IF \E i \in Range(l.batch) : ops[i].st = "rejected"
    THEN {}
    ELSE {[l EXCEPT !.pc = "pause"]}
LoopAfterAwait(l) == {[l EXCEPT !.pc = "pause"]}

\* the continuation of `await Promise.all(...)`: a rejection is logged, then
\* the loop sets the 10 ms timer
RoundEnds(l) ==
  /\ l \in loops
  /\ l.pc = "awaitAll"
  /\ PromiseAllSettled(l.batch)
  /\ loops' = (loops \ {l}) \cup LoopAfterAwait(l)
  /\ UNCHANGED <<queue, processing, nloops, ops, rounds, started, budget, burst>>

\* the continuation of `await new Promise(r => setTimeout(r, 10))`: back to
\* the loop condition; the loop ends with processing = false
TimerFires(l) ==
  /\ l \in loops
  /\ l.pc = "pause"
  /\ LoopHead(queue, ops, l.id, loops \ {l}, processing, FALSE)
  /\ UNCHANGED <<nloops, budget, burst>>

\* ------------------------------------------- deleteMission / uncompleteMission
\* `if (error) throw error ... resolve()` / `catch (error) { reject(error) }`
\* (faulty variant: the error of the remote call is not tested)
CallerOutcomeAlwaysResolve(res) == "resolved"
CallerOutcome(res) == IF res = "error" THEN "rejected" ELSE "resolved"

\* the remote delete of the api operation i answers: the closure settles the
\* caller's promise and returns, so that the promise of op() is fulfilled
ApiSettles(i, res) ==
  /\ i \in DOMAIN ops
  /\ ops[i].kind = "api"
  /\ ops[i].st = "running"
  /\ ops' = [ops EXCEPT ![i].remote = res,
                        ![i].caller = IF @ = "pending" THEN CallerOutcome(res) ELSE @,
                        ![i].settles = @ + 1,
                        ![i].st = "resolved"]
  /\ UNCHANGED <<queue, processing, loops, nloops, rounds, started, budget, burst>>

\* the promise of another operation is fulfilled or rejected
RawSettles(i, res) ==
  /\ i \in DOMAIN ops
  /\ ops[i].kind = "raw"
  /\ ops[i].st = "running"
  /\ ops' = [ops EXCEPT ![i].st = IF res = "error" THEN "rejected" ELSE "resolved"]
  /\ UNCHANGED <<queue, processing, loops, nloops, rounds, started, budget, burst>>

\* ------------------------------------------------------- specifications
Init ==
  /\ queue = <<>>
  /\ processing = FALSE
  /\ loops = {}
  /\ nloops = 0
  /\ ops = <<>>
  /\ rounds = 0
  /\ started = <<>>
  /\ budget = MaxOps
  /\ burst = 0
  /\ CacheInit
  /\ ApiIdle
  /\ SyncIdle
  /\ AppIdle

Next ==
  \/ (\E k \in Kinds : add(k)) /\ UNCHANGED <<cacheVars, apiVars, syncVars, appVars>>
  \/ (\E l \in loops : RoundEnds(l)) /\ UNCHANGED <<cacheVars, apiVars, syncVars, appVars>>
  \/ (\E l \in loops : TimerFires(l)) /\ UNCHANGED <<cacheVars, apiVars, syncVars, appVars>>
  \/ (\E i \in DOMAIN ops, res \in Outcomes : ApiSettles(i, res)) /\ UNCHANGED <<cacheVars, apiVars, syncVars, appVars>>
  \/ (\E i \in DOMAIN ops, res \in Outcomes : RawSettles(i, res)) /\ UNCHANGED <<cacheVars, apiVars, syncVars, appVars>>

Spec == Init /\ [][Next]_vars

\* M > batchSize consecutive add calls on an idle queue (one synchronous
\* block, as the map of syncPendingOperations over delete_mission records),
\* then the drain with no further add
BurstInit ==
  /\ queue = <<>>
  /\ processing = FALSE
  /\ loops = {}
  /\ nloops = 0
  /\ ops = <<>>
  /\ rounds = 0
  /\ started = <<>>
  /\ budget \in (batchSize + 1)..MaxBurst
  /\ burst = budget
  /\ CacheInit
  /\ ApiIdle
  /\ SyncIdle
  /\ AppIdle

BurstNext ==
  \/ add("api") /\ UNCHANGED <<cacheVars, apiVars, syncVars, appVars>>
  \/ budget = 0 /\ (\E l \in loops : RoundEnds(l)) /\ UNCHANGED <<cacheVars, apiVars, syncVars, appVars>>
  \/ budget = 0 /\ (\E l \in loops : TimerFires(l)) /\ UNCHANGED <<cacheVars, apiVars, syncVars, appVars>>
  \/ budget = 0 /\ (\E i \in DOMAIN ops, res \in Outcomes : ApiSettles(i, res))
                /\ UNCHANGED <<cacheVars, apiVars, syncVars, appVars>>

BurstSpec == BurstInit /\ [][BurstNext]_vars

\* no operation hangs: every invoked operation eventually settles, and the
\* continuations of the drain loop (promise reactions, the 10 ms timer)
\* eventually run
Fairness ==
  /\ WF_vars((\E l \in loops : RoundEnds(l)) /\ UNCHANGED <<cacheVars, apiVars, syncVars, appVars>>)
  /\ WF_vars((\E l \in loops : TimerFires(l)) /\ UNCHANGED <<cacheVars, apiVars, syncVars, appVars>>)
  /\ WF_vars((\E i \in DOMAIN ops, res \in Outcomes : ApiSettles(i, res))
             /\ UNCHANGED <<cacheVars, apiVars, syncVars, appVars>>)
  /\ WF_vars((\E i \in DOMAIN ops, res \in Outcomes : RawSettles(i, res))
             /\ UNCHANGED <<cacheVars, apiVars, syncVars, appVars>>)

LiveNext ==
  \/ (\E k \in SettlingKinds : add(k)) /\ UNCHANGED <<cacheVars, apiVars, syncVars, appVars>>
  \/ (\E l \in loops : RoundEnds(l)) /\ UNCHANGED <<cacheVars, apiVars, syncVars, appVars>>
  \/ (\E l \in loops : TimerFires(l)) /\ UNCHANGED <<cacheVars, apiVars, syncVars, appVars>>
  \/ (\E i \in DOMAIN ops, res \in Outcomes : ApiSettles(i, res)) /\ UNCHANGED <<cacheVars, apiVars, syncVars, appVars>>
  \/ (\E i \in DOMAIN ops, res \in Outcomes : RawSettles(i, res)) /\ UNCHANGED <<cacheVars, apiVars, syncVars, appVars>>

LiveSpec == Init /\ [][LiveNext]_vars /\ Fairness

\* the calls of DataCache in any order, with the clock
BatchIdle ==
  /\ queue = <<>>
  /\ processing = FALSE
  /\ loops = {}
  /\ nloops = 0
  /\ ops = <<>>
  /\ rounds = 0
  /\ started = <<>>
  /\ budget = 0
  /\ burst = 0

CacheSpecInit == BatchIdle /\ CacheInit /\ ApiIdle /\ SyncIdle /\ AppIdle

CacheNext ==
  \/ (\E k \in Keys, d \in Values, ttl \in Ttls : set(k, d, ttl)) /\ UNCHANGED <<batchVars, apiVars, syncVars, appVars>>
  \/ (\E k \in Keys : get(k)) /\ UNCHANGED <<batchVars, apiVars, syncVars, appVars>>
  \/ (\E k \in Keys : delete(k)) /\ UNCHANGED <<batchVars, apiVars, syncVars, appVars>>
  \/ clear /\ UNCHANGED <<batchVars, apiVars, syncVars, appVars>>
  \/ (\E p \in Patterns : invalidatePattern(p)) /\ UNCHANGED <<batchVars, apiVars, syncVars, appVars>>
  \/ Tick /\ UNCHANGED <<batchVars, apiVars, syncVars, appVars>>

CacheSpec == CacheSpecInit /\ [][CacheNext]_vars

\* ---------------------------------------------------------- api: calls
\* the users that call the api, and the instants at which the clock is
\* read: at 60001 an entry of the time 0 with the ttl 60000 has expired, at
\* 300001 one with the ttl 300000
ApiUsers == {U1}
Instants == {0, 60001, 300001}
MaxCalls == 2

ReadFns == {"getUserMissions", "getTodayCompletions"}
InsertFns == {"createMission", "completeMission"}

\* the cache key of a call: `missions:${userId}` or
\* `completions:${userId}:${today}`
KeyOf(fn, u) ==
  IF fn \in {"getUserMissions", "createMission"}
  THEN MissionsKey(u) ELSE CompletionsKey(u, Today)

\* the ttl with which a call writes the cache
TtlOf(fn) ==
  IF fn \in {"getUserMissions", "createMission"}
  THEN defaultTtl ELSE completionsTtl

\* .from('user_missions').select('*').eq('user_id', userId)
\* .order('created_at'): the ids of the user's missions, oldest first
MissionIds(table, u) ==
  LET rows == SelectSeq(table, LAMBDA r : r.user = u)
  IN [n \in 1..Len(rows) |-> rows[n].id]

\* .from('mission_completions').select('*').eq('user_id', userId)
\* .gte('completed_at', ...).lte('completed_at', ...): the user's rows of
\* today, each with its id and its mission_id
TodayCompletions(table, u) ==
  LET rows == SelectSeq(table, LAMBDA r : r.user = u)
  IN [n \in 1..Len(rows) |-> [id |-> rows[n].id, mission |-> rows[n].mission]]

\* mission_completions: mission_id REFERENCES user_missions(id), and
\* UNIQUE(user_id, mission_id, DATE(completed_at)): the insert of the call
\* c can succeed only for a mission that exists and is not completed today
InsertAllowed(c) ==
  c.fn = "completeMission" =>
    /\ \E n \in DOMAIN remoteMissions : remoteMissions[n].id = c.mission
    /\ \A n \in DOMAIN remoteCompletions :
         ~(remoteCompletions[n].user = c.user
           /\ remoteCompletions[n].mission = c.mission)

\* the mission lists that the remote store holds at the time t
HeldAt(table, t) == {<<u, MissionIds(table, u), t>> : u \in ApiUsers}

\* a call of an api function, as it stands after its first step
NewCall(fn, u, m, uc) ==
  [fn |-> fn, user |-> u, mission |-> m, useCache |-> uc,
   pc |-> "remote", res |-> "none", data |-> <<>>, rerr |-> 0,
   outcome |-> "pending", ret |-> <<>>, thrown |-> 0,
   remoteCalls |-> 1, at |-> now, doneAt |-> now,
   pre |-> cache, issue |-> cache, post |-> EmptyMap,
   quiet |-> TRUE]

\* a step of the call i (0: of a new call) runs between the steps of the
\* calls that have not returned
Disturb(cs, i) ==
  [n \in DOMAIN cs |->
     IF n # i /\ cs[n].pc # "done" THEN [cs[n] EXCEPT !.quiet = FALSE]
     ELSE cs[n]]

InFlightCalls == {n \in DOMAIN calls : calls[n].pc # "done"}

CanCall == apiBudget > 0

\* `if (useCache) { const cached = dataCache.get(cacheKey); if (cached)
\* return cached }`, then the remote select is issued
ReadStart(fn, u, uc) ==
  LET key == KeyOf(fn, u)
      cached == IF uc THEN GetResult(cache, key, now) ELSE Null
      m1 == IF uc THEN GetEffect(cache, key, now) ELSE cache
      c == NewCall(fn, u, 0, uc)
  IN /\ CanCall
     /\ apiBudget' = apiBudget - 1
     /\ cache' = m1
     /\ calls' = Append(Disturb(calls, 0),
          IF cached # Null
          THEN [c EXCEPT !.pc = "done", !.outcome = "hit", !.ret = cached[1],
                         !.remoteCalls = 0, !.post = m1]
          ELSE [c EXCEPT !.issue = m1])
     /\ UNCHANGED <<now, last, lastSet, remoteMissions, remoteCompletions,
                    nextId, held>>

getUserMissions(u, uc) == ReadStart("getUserMissions", u, uc)

getTodayCompletions(u, uc) == ReadStart("getTodayCompletions", u, uc)

\* createMission, up to the insert: the cache is invalidated, then the
\* remote insert is issued
CreateStartCache(m, u) == InvalidatePattern(m, MissionsKey(u))

createMission(u) ==
  LET m1 == CreateStartCache(cache, u)
  IN /\ CanCall
     /\ apiBudget' = apiBudget - 1
     /\ cache' = m1
     /\ calls' = Append(Disturb(calls, 0),
          [NewCall("createMission", u, 0, TRUE) EXCEPT !.issue = m1])
     /\ UNCHANGED <<now, last, lastSet, remoteMissions, remoteCompletions,
                    nextId, held>>

\* completeMission, up to the insert
completeMission(u, m) ==
  /\ CanCall
  /\ apiBudget' = apiBudget - 1
  /\ calls' = Append(Disturb(calls, 0), NewCall("completeMission", u, m, TRUE))
  /\ UNCHANGED <<cache, now, last, lastSet, remoteMissions, remoteCompletions,
                 nextId, held>>

\* the remote store runs the request of the call i: a select reads the
\* table, an insert adds a row, and a request that fails does neither
RemoteRuns(i, res) ==
  LET c == calls[i]
      ok == res = "ok"
      missions1 ==
        IF ok /\ c.fn = "createMission"
        THEN Append(remoteMissions, [id |-> nextId, user |-> c.user])
        ELSE remoteMissions
      completions1 ==
        IF ok /\ c.fn = "completeMission"
        THEN Append(remoteCompletions,
                    [id |-> nextId, user |-> c.user, mission |-> c.mission])
        ELSE remoteCompletions
      data ==
        IF ~ok THEN <<>>
        ELSE IF c.fn = "getUserMissions" THEN MissionIds(remoteMissions, c.user)
        ELSE IF c.fn = "getTodayCompletions"
             THEN TodayCompletions(remoteCompletions, c.user)
        ELSE IF c.fn = "completeMission"
             THEN <<[id |-> nextId, mission |-> c.mission]>>
        ELSE <<nextId>>
  IN /\ c.pc = "remote"
     /\ ok => InsertAllowed(c)
     /\ remoteMissions' = missions1
     /\ remoteCompletions' = completions1
     /\ nextId' = IF ok /\ c.fn \in InsertFns THEN nextId + 1 ELSE nextId
     /\ held' = held \cup HeldAt(missions1, now)
     /\ calls' = [Disturb(calls, i) EXCEPT
                    ![i] = [c EXCEPT !.pc = "reply", !.res = res,
                                     !.data = data,
                                     !.rerr = IF ok THEN 0 ELSE i]]
     /\ UNCHANGED <<cache, now, last, lastSet, apiBudget>>

\* `const cachedMissions = dataCache.get(cacheKey) || []`
CachedOrEmpty(m, k, t) ==
  IF GetResult(m, k, t) = Null THEN <<>> ELSE GetResult(m, k, t)[1]

\* the cache after the reply of a select: `if (error) throw error` comes
\* before dataCache.set
\* (faulty variant: the result is returned and not stored)
ReadReplyCacheNoStore(m, c, t) == m
ReadReplyCache(m, c, t) ==
  IF c.res = "ok" THEN SetEntry(m, KeyOf(c.fn, c.user), c.data, TtlOf(c.fn), t)
  ELSE m

\* the cache after the reply of an insert: the new row is added to the
\* cached list, or to an empty list when there is none; the catch block
\* invalidates (createMission) or deletes the key (completeMission)
\* (faulty variant: the catch block leaves the cache alone)
InsertReplyCacheNoCatch(m, c, t) ==
  LET key == KeyOf(c.fn, c.user)
  IN IF c.res = "ok"
     THEN SetEntry(GetEffect(m, key, t), key,
                   CachedOrEmpty(m, key, t) \o c.data, TtlOf(c.fn), t)
     ELSE m
InsertReplyCache(m, c, t) ==
  LET key == KeyOf(c.fn, c.user)
  IN IF c.res = "ok"
     THEN SetEntry(GetEffect(m, key, t), key,
                   CachedOrEmpty(m, key, t) \o c.data, TtlOf(c.fn), t)
     ELSE IF c.fn = "createMission" THEN InvalidatePattern(m, key)
     ELSE DeleteEntry(m, key)

\* the reply of the remote store reaches the call i, which returns the
\* data or throws the error of the remote store
Reply(i) ==
  LET c == calls[i]
      m1 == IF c.fn \in ReadFns THEN ReadReplyCache(cache, c, now)
            ELSE InsertReplyCache(cache, c, now)
  IN /\ c.pc = "reply"
     /\ cache' = m1
     /\ calls' = [Disturb(calls, i) EXCEPT
                    ![i] = [c EXCEPT
                       !.pc = "done",
                       !.outcome = IF c.res = "ok" THEN "returned" ELSE "thrown",
                       !.ret = c.data,
                       !.thrown = c.rerr,
                       !.doneAt = now,
                       !.post = m1]]
     /\ UNCHANGED <<now, last, lastSet, remoteMissions, remoteCompletions,
                    nextId, held, apiBudget>>

\* time passes to a later instant
ApiTick ==
  /\ \E t \in Instants :
       /\ t > now
       /\ now' = t
  /\ held' = held \cup HeldAt(remoteMissions, now')
  /\ UNCHANGED <<cache, last, lastSet, remoteMissions, remoteCompletions,
                 nextId, calls, apiBudget>>

\* the missions that the remote store holds before the first call
InitialTables == {<<>>, <<[id |-> 1, user |-> U1]>>}

ApiInit ==
  /\ BatchIdle
  /\ CacheInit
  /\ remoteMissions \in InitialTables
  /\ remoteCompletions = <<>>
  /\ nextId = Len(remoteMissions) + 1
  /\ calls = <<>>
  /\ held = HeldAt(remoteMissions, 0)
  /\ apiBudget = MaxCalls
  /\ SyncIdle
  /\ AppIdle

ApiNext ==
  \/ (\E u \in ApiUsers, uc \in BOOLEAN : getUserMissions(u, uc)) /\ UNCHANGED <<batchVars, syncVars, appVars>>
  \/ (\E u \in ApiUsers, uc \in BOOLEAN : getTodayCompletions(u, uc)) /\ UNCHANGED <<batchVars, syncVars, appVars>>
  \/ (\E u \in ApiUsers : createMission(u)) /\ UNCHANGED <<batchVars, syncVars, appVars>>
  \/ (\E i \in DOMAIN calls, res \in Outcomes : RemoteRuns(i, res)) /\ UNCHANGED <<batchVars, syncVars, appVars>>
  \/ (\E i \in DOMAIN calls : Reply(i)) /\ UNCHANGED <<batchVars, syncVars, appVars>>
  \/ ApiTick /\ UNCHANGED <<batchVars, syncVars, appVars>>

ApiSpec == ApiInit /\ [][ApiNext]_vars

\* ---------------------------------------------------------------- sync
\* the 'online' events to come
MaxSyncs == 2

\* the records of a stored list: { type, data }
CreateRec == [type |-> "create_mission", user |-> U1, mission |-> 0]
CompleteRec == [type |-> "complete_mission", user |-> U1, mission |-> 1]
DeleteRec == [type |-> "delete_mission", user |-> U1, mission |-> 1]
OtherRec == [type |-> "other", user |-> U1, mission |-> 0]
PendingRecs == {CreateRec, CompleteRec, DeleteRec, OtherRec}

\* the stored lists: up to two records, of which at most one delete_mission
PendingLists ==
  {<<>>} \cup {<<a>> : a \in PendingRecs}
         \cup {<<a, b>> : a \in PendingRecs, b \in PendingRecs \ {DeleteRec}}
         \cup {<<a, DeleteRec>> : a \in PendingRecs \ {DeleteRec}}

\* the text stored under 'pendingOperations': the JSON text of a list of
\* records, or a text that is no JSON
Stored(list) == [text |-> "json", list |-> list]
Malformed == [text |-> "malformed", list |-> <<>>]

\* JSON.parse(pendingOps): the list, or a SyntaxError is thrown
JsonParse(payload) ==
  IF payload.text = "json" THEN [threw |-> FALSE, value |-> payload.list]
  ELSE [threw |-> TRUE, value |-> <<>>]

HasDelete(list) == \E n \in DOMAIN list : list[n].type = "delete_mission"

\* operations.map(op => switch (op.type) ...) for one record: the entry
\* point runs up to its first await and returns its promise; st is the
\* cache, the calls and the promises so far
Dispatch(st, rec) ==
  IF rec.type = "create_mission" THEN
    LET m1 == CreateStartCache(st.cache, rec.user)
        c == [NewCall("createMission", rec.user, 0, TRUE)
                EXCEPT !.pre = st.cache, !.issue = m1]
    IN [cache |-> m1,
        calls |-> Append(Disturb(st.calls, 0), c),
        promises |-> Append(st.promises,
                            [kind |-> "call", ref |-> Len(st.calls) + 1])]
  ELSE IF rec.type = "complete_mission" THEN
    LET c == [NewCall("completeMission", rec.user, rec.mission, TRUE)
                EXCEPT !.pre = st.cache, !.issue = st.cache]
    IN [cache |-> st.cache,
        calls |-> Append(Disturb(st.calls, 0), c),
        promises |-> Append(st.promises,
                            [kind |-> "call", ref |-> Len(st.calls) + 1])]
  ELSE IF rec.type = "delete_mission" THEN
    [st EXCEPT !.promises = Append(@, [kind |-> "op", ref |-> Len(ops) + 1])]
  ELSE
    [st EXCEPT !.promises = Append(@, [kind |-> "value", ref |-> 0])]

RECURSIVE DispatchAll(_, _)
DispatchAll(st, list) ==
  IF list = <<>> THEN st
  ELSE DispatchAll(Dispatch(st, Head(list)), Tail(list))

\* the state of the promise that an entry point returned
PromiseState(p, cs, os) ==
  IF p.kind = "value" THEN "fulfilled"
  ELSE IF p.kind = "call" THEN
    (IF cs[p.ref].outcome \in {"returned", "hit"} THEN "fulfilled"
     ELSE IF cs[p.ref].outcome = "thrown" THEN "rejected"
     ELSE "pending")
  ELSE
    (IF os[p.ref].caller = "resolved" THEN "fulfilled"
     ELSE IF os[p.ref].caller = "rejected" THEN "rejected"
     ELSE "pending")

\* Promise.all(operations.map(...)): rejected as soon as one promise is
\* rejected, fulfilled once all are fulfilled
PromiseAll(ps, cs, os) ==
  IF \E n \in DOMAIN ps : PromiseState(ps[n], cs, os) = "rejected"
    THEN "rejected"
  ELSE IF \A n \in DOMAIN ps : PromiseState(ps[n], cs, os) = "fulfilled"
    THEN "fulfilled"
  ELSE "pending"

\* what syncPendingOperations does after `await Promise.all(...)`:
\* localStorage.removeItem when it was fulfilled, console.error in the
\* catch block when it was rejected
\* (faulty variant: no catch block, the rejection leaves the function)
AfterAwaitNoCatch(all) ==
  IF all = "fulfilled" THEN "removed"
  ELSE IF all = "rejected" THEN "rejected"
  ELSE "none"
AfterAwait(all) ==
  IF all = "fulfilled" THEN "removed"
  ELSE IF all = "rejected" THEN "logged"
  ELSE "none"

\* the syncs that await Promise.all go on in the step that settles it
SyncResume ==
  LET after(n) == AfterAwait(PromiseAll(syncs[n].promises, calls', ops'))
      waiting == {n \in DOMAIN syncs : syncs[n].pc = "awaitAll"}
  IN /\ syncs' = [n \in DOMAIN syncs |->
                    IF n \in waiting /\ after(n) # "none"
                    THEN [syncs[n] EXCEPT !.pc = "done", !.result = after(n)]
                    ELSE syncs[n]]
     /\ pending' = IF \E n \in waiting : after(n) = "removed"
                   THEN Null ELSE pending
     /\ UNCHANGED syncBudget

\* window 'online': handleOnline calls api.syncPendingOperations(), which
\* runs up to `await Promise.all(...)` and through it when it is settled
syncPendingOperations ==
  /\ syncBudget > 0
  /\ syncBudget' = syncBudget - 1
  /\ IF pending = Null
     THEN /\ syncs' = Append(syncs, [list |-> <<>>, promises |-> <<>>,
                                     parse |-> "none",
                                     pc |-> "done", result |-> "noRecord"])
          /\ UNCHANGED <<batchVars, cache, calls, pending>>
     ELSE IF JsonParse(pending[1]).threw
     THEN /\ syncs' = Append(syncs, [list |-> <<>>, promises |-> <<>>,
                                     parse |-> "threw",
                                     pc |-> "done", result |-> "logged"])
          /\ UNCHANGED <<batchVars, cache, calls, pending>>
     ELSE LET list == JsonParse(pending[1]).value
              st == DispatchAll([cache |-> cache, calls |-> calls,
                                 promises |-> <<>>], list)
          IN /\ cache' = st.cache
             /\ calls' = st.calls
             /\ IF HasDelete(list) THEN add("api") ELSE UNCHANGED batchVars
             /\ LET after == AfterAwait(PromiseAll(st.promises, calls', ops'))
                IN /\ syncs' = Append(syncs,
                        [list |-> list, promises |-> st.promises,
                         parse |-> "ok",
                         pc |-> IF after = "none" THEN "awaitAll" ELSE "done",
                         result |-> after])
                   /\ pending' = IF after = "removed" THEN Null ELSE pending
  /\ UNCHANGED <<now, last, lastSet, remoteMissions, remoteCompletions,
                 nextId, held, apiBudget>>

\* the mission that the queued delete i is to delete
DeleteTarget(i) ==
  LET n == CHOOSE n \in DOMAIN syncs :
             \E k \in DOMAIN syncs[n].promises :
               syncs[n].promises[k] = [kind |-> "op", ref |-> i]
      k == CHOOSE k \in DOMAIN syncs[n].promises :
             syncs[n].promises[k] = [kind |-> "op", ref |-> i]
  IN syncs[n].list[k].mission

\* the remote delete of the deleteMission closure i answers: on success the
\* row is gone (with the completions of the mission: ON DELETE CASCADE) and
\* the closure invalidates 'missions:' and 'completions:'
\* before it resolves; on failure it rejects and leaves the cache alone
DeleteSettles(i, res) ==
  LET ok == res = "ok"
      missions1 ==
        IF ok THEN SelectSeq(remoteMissions,
                             LAMBDA r : r.id # DeleteTarget(i))
        ELSE remoteMissions
  IN /\ ApiSettles(i, res)
     /\ remoteMissions' = missions1
     /\ held' = held \cup HeldAt(missions1, now)
     /\ cache' = IF ok
                 THEN InvalidatePattern(
                        InvalidatePattern(cache, MissionsPrefix),
                        CompletionsPrefix)
                 ELSE cache
     /\ remoteCompletions' =
          IF ok THEN SelectSeq(remoteCompletions,
                               LAMBDA r : r.mission # DeleteTarget(i))
          ELSE remoteCompletions
     /\ calls' = Disturb(calls, 0)
     /\ UNCHANGED <<now, last, lastSet, nextId, apiBudget>>

\* the texts that localStorage may hold
Payloads == {Stored(l) : l \in PendingLists} \cup {Malformed}

\* a stored text waits in localStorage, or none does, and n 'online'
\* events are to come
SyncStart(n) ==
  /\ queue = <<>>
  /\ processing = FALSE
  /\ loops = {}
  /\ nloops = 0
  /\ ops = <<>>
  /\ rounds = 0
  /\ started = <<>>
  /\ budget = n
  /\ burst = 0
  /\ CacheInit
  /\ remoteMissions \in InitialTables
  /\ remoteCompletions = <<>>
  /\ nextId = Len(remoteMissions) + 1
  /\ calls = <<>>
  /\ held = HeldAt(remoteMissions, 0)
  /\ apiBudget = 0
  /\ pending \in {Null} \cup {Some(p) : p \in Payloads}
  /\ syncs = <<>>
  /\ syncBudget = n
  /\ AppIdle

SyncInit == SyncStart(MaxSyncs)

SyncNext ==
  \/ syncPendingOperations /\ UNCHANGED appVars
  \/ (\E i \in DOMAIN calls, res \in Outcomes : RemoteRuns(i, res)) /\ UNCHANGED <<batchVars, appVars>> /\ SyncResume
  \/ (\E i \in DOMAIN calls : Reply(i)) /\ UNCHANGED <<batchVars, appVars>> /\ SyncResume
  \/ (\E i \in DOMAIN ops, res \in Outcomes : DeleteSettles(i, res)) /\ SyncResume /\ UNCHANGED appVars
  \/ (\E l \in loops : RoundEnds(l)) /\ UNCHANGED <<cacheVars, apiVars, syncVars, appVars>>
  \/ (\E l \in loops : TimerFires(l)) /\ UNCHANGED <<cacheVars, apiVars, syncVars, appVars>>

SyncSpec == SyncInit /\ [][SyncNext]_vars

\* one 'online' event: a single call of syncPendingOperations
MaxReplays == 1

ReplayInit == SyncStart(MaxReplays)

ReplaySpec == ReplayInit /\ [][SyncNext]_vars

\* ------------------------------------------------------------- TodoApp
\* the clicks to come
MaxClicks == 1

\* a handler or load of TodoApp that awaits the promise of an api call:
\* via tells whether the promise is that of a call ("call") or that of an
\* operation of the batch queue ("op"), ref is its index
NewHandler(kind, m, via, ref) ==
  [kind |-> kind, mission |-> m, via |-> via, ref |-> ref,
   pc |-> "await", outcome |-> "pending", alerted |-> FALSE,
   preM |-> uiMissions, preC |-> uiCompletions,
   postM |-> <<>>, postC |-> <<>>,
   quiet |-> TRUE]

\* completions.some(c => c.mission_id === missionId)
IsCompleted(C, m) == \E n \in DOMAIN C : C[n].mission = m

\* prev.filter(m => m.id !== missionId) and
\* prev.filter(c => c.mission_id !== missionId)
WithoutMission(M, m) == SelectSeq(M, LAMBDA x : x # m)
WithoutCompletionsOf(C, m) == SelectSeq(C, LAMBDA c : c.mission # m)

\* `missions` after the handler h went on past its await with the promise
\* fulfilled with data
\* (faulty variant: a deleted mission leaves the list whether the promise
\* was fulfilled or rejected)
MissionsAfterAlways(h, ok, data, M) ==
  IF h.kind = "delete" THEN WithoutMission(M, h.mission)
  ELSE IF ~ok THEN M
  ELSE IF h.kind = "add" THEN Append(M, data[1])
  ELSE IF h.kind = "loadMissions" THEN data
  ELSE M
MissionsAfter(h, ok, data, M) ==
  IF ~ok THEN M
  ELSE IF h.kind = "add" THEN Append(M, data[1])
  ELSE IF h.kind = "delete" THEN WithoutMission(M, h.mission)
  ELSE IF h.kind = "loadMissions" THEN data
  ELSE M

\* `completions` after the handler h went on past its await
CompletionsAfter(h, ok, data, C) ==
  IF ~ok THEN C
  ELSE IF h.kind = "complete" THEN Append(C, data[1])
  ELSE IF h.kind \in {"uncomplete", "delete"}
       THEN WithoutCompletionsOf(C, h.mission)
  ELSE IF h.kind = "loadCompletions" THEN data
  ELSE C

\* `if (missions.length === 0) return 0;
\* return Math.round((completions.length / missions.length) * 100)`
Progress(M, C) ==
  IF Len(M) = 0 THEN 0
  ELSE (200 * Len(C) + Len(M)) \div (2 * Len(M))

\* the catch blocks of the write handlers call alert, those of the loads
\* console.error
Alerts(h, ok) == ~ok /\ h.kind \in {"add", "complete", "uncomplete", "delete"}

\* the handlers of hs whose promise is settled go on past their await (the
\* continuation runs in the step that settles the promise)
UiResume(hs) ==
  LET state(n) == PromiseState([kind |-> hs[n].via, ref |-> hs[n].ref],
                               calls', ops')
      ready == {n \in DOMAIN hs : hs[n].pc = "await" /\ state(n) # "pending"}
  IN IF ready = {}
     THEN /\ handlers' = hs
          /\ UNCHANGED <<uiMissions, uiCompletions>>
     ELSE LET n == CHOOSE n \in ready : TRUE
              h == hs[n]
              ok == state(n) = "fulfilled"
              data == IF h.via = "call" THEN calls'[h.ref].ret ELSE <<>>
              M1 == MissionsAfter(h, ok, data, uiMissions)
              C1 == CompletionsAfter(h, ok, data, uiCompletions)
              changed == M1 # uiMissions \/ C1 # uiCompletions
          IN /\ uiMissions' = M1
             /\ uiCompletions' = C1
             /\ handlers' =
                  [k \in DOMAIN hs |->
                     IF k = n
                     THEN [h EXCEPT !.pc = "done",
                                    !.outcome = IF ok THEN "ok" ELSE "failed",
                                    !.alerted = Alerts(h, ok),
                                    !.postM = M1, !.postC = C1]
                     ELSE IF changed /\ hs[k].pc = "await"
                     THEN [hs[k] EXCEPT !.quiet = FALSE]
                     ELSE hs[k]]

\* a realtime event is published for a table that changed
Publish ==
  /\ rtMissions' = IF remoteMissions' # remoteMissions
                   THEN rtMissions + 1 ELSE rtMissions
  /\ rtCompletions' = IF remoteCompletions' # remoteCompletions
                      THEN rtCompletions + 1 ELSE rtCompletions

Click == uiBudget > 0 /\ uiBudget' = uiBudget - 1

\* handleAddMission, up to `await api.createMission(...)`
handleAddMission ==
  /\ Click
  /\ createMission(U1)
  /\ UNCHANGED <<batchVars, syncVars, homeVars, rtMissions, rtCompletions>>
  /\ UiResume(Append(handlers, NewHandler("add", 0, "call", Len(calls) + 1)))

\* handleCompleteMission(missionId), up to its await: uncompleteMission
\* when the mission is completed in `completions`, completeMission when not
handleCompleteMission(m) ==
  /\ Click
  /\ \E n \in DOMAIN uiMissions : uiMissions[n] = m
  /\ IF IsCompleted(uiCompletions, m)
     THEN /\ add("api")
          /\ UNCHANGED <<cacheVars, apiVars>>
          /\ UiResume(Append(handlers,
                             NewHandler("uncomplete", m, "op", Len(ops) + 1)))
     ELSE /\ completeMission(U1, m)
          /\ UNCHANGED batchVars
          /\ UiResume(Append(handlers,
                             NewHandler("complete", m, "call", Len(calls) + 1)))
  /\ UNCHANGED <<syncVars, homeVars, rtMissions, rtCompletions>>

\* handleDeleteMission(missionId) with the confirmation accepted, up to
\* `await api.deleteMission(missionId)`
handleDeleteMission(m) ==
  /\ Click
  /\ \E n \in DOMAIN uiMissions : uiMissions[n] = m
  /\ add("api")
  /\ UNCHANGED <<cacheVars, apiVars, syncVars, homeVars, rtMissions, rtCompletions>>
  /\ UiResume(Append(handlers, NewHandler("delete", m, "op", Len(ops) + 1)))

\* the realtime callback of user_missions: loadMissions()
loadMissions ==
  /\ rtMissions > 0
  /\ rtMissions' = rtMissions - 1
  /\ getUserMissions(U1, TRUE)
  /\ UNCHANGED <<batchVars, syncVars, homeVars, rtCompletions, uiBudget>>
  /\ UiResume(Append(handlers,
                     NewHandler("loadMissions", 0, "call", Len(calls) + 1)))

\* the realtime callback of mission_completions: loadTodayCompletions()
loadTodayCompletions ==
  /\ rtCompletions > 0
  /\ rtCompletions' = rtCompletions - 1
  /\ getTodayCompletions(U1, TRUE)
  /\ UNCHANGED <<batchVars, syncVars, homeVars, rtMissions, uiBudget>>
  /\ UiResume(Append(handlers,
                     NewHandler("loadCompletions", 0, "call", Len(calls) + 1)))

\* the handler that queued the operation i
HandlerOf(i) ==
  CHOOSE n \in DOMAIN handlers :
    handlers[n].via = "op" /\ handlers[n].ref = i

\* the cache after the remote delete of a batched mutation answered:
\* deleteMission invalidates 'missions:' and 'completions:',
\* uncompleteMission deletes the key of the user's completions of today,
\* and a delete that failed leaves the cache alone
\* (faulty variant: the cache is invalidated whatever the answer)
BatchedCacheAlways(m, kind, u, res) ==
  IF kind = "delete"
  THEN InvalidatePattern(InvalidatePattern(m, MissionsPrefix),
                         CompletionsPrefix)
  ELSE DeleteEntry(m, CompletionsKey(u, Today))
BatchedCache(m, kind, u, res) ==
  IF res # "ok" THEN m
  ELSE IF kind = "delete"
  THEN InvalidatePattern(InvalidatePattern(m, MissionsPrefix),
                         CompletionsPrefix)
  ELSE DeleteEntry(m, CompletionsKey(u, Today))

\* the remote delete of the closure i of deleteMission / uncompleteMission
\* answers; the closure changes the cache and settles the caller's promise
BatchedSettles(i, res) ==
  LET h == handlers[HandlerOf(i)]
      ok == res = "ok"
      missions1 ==
        IF ok /\ h.kind = "delete"
        THEN SelectSeq(remoteMissions, LAMBDA r : r.id # h.mission)
        ELSE remoteMissions
      completions1 ==
        IF ok THEN SelectSeq(remoteCompletions, LAMBDA r : r.mission # h.mission)
        ELSE remoteCompletions
  IN /\ ApiSettles(i, res)
     /\ remoteMissions' = missions1
     /\ remoteCompletions' = completions1
     /\ held' = held \cup HeldAt(missions1, now)
     /\ cache' = BatchedCache(cache, h.kind, U1, res)
     /\ calls' = Disturb(calls, 0)
     /\ UNCHANGED <<now, last, lastSet, nextId, apiBudget>>

\* what the remote store holds when TodoApp is mounted at the time 0, and
\* the time it is now: nothing, at the time 0; or two missions of which the
\* first is completed today, at the time 60001
Scenarios ==
  {[missions |-> <<>>, completions |-> <<>>, now |-> 0],
   [missions |-> <<[id |-> 1, user |-> U1], [id |-> 2, user |-> U1]>>,
    completions |-> <<[id |-> 3, user |-> U1, mission |-> 1]>>,
    now |-> 60001]}

\* the cache after ensureProfile and the two loads of the mount effect, at
\* the time 0; the module-level dataCache still holds the missions entry of
\* a user who was signed in before
LoadedCache(missions, completions) ==
  SetEntry(
    SetEntry(
      SetEntry(
        SetEntry(EmptyMap, MissionsKey(U2), <<>>, defaultTtl, 0),
        ProfileKey(U1), <<U1>>, defaultTtl, 0),
      MissionsKey(U1), MissionIds(missions, U1), defaultTtl, 0),
    CompletionsKey(U1, Today),
    TodayCompletions(completions, U1), completionsTtl, 0)

\* TodoApp was mounted at the time 0 and its two loads have returned: the
\* lists are those of the remote store and the cache holds them (at the
\* time 60001 the completions entry has expired, at the time 300001 the
\* missions entry too); events realtime events of user_missions are still
\* to be delivered
UiStart(scs, events) ==
  /\ queue = <<>>
  /\ processing = FALSE
  /\ loops = {}
  /\ nloops = 0
  /\ ops = <<>>
  /\ rounds = 0
  /\ started = <<>>
  /\ budget = MaxClicks
  /\ burst = 0
  /\ \E sc \in scs :
       /\ remoteMissions = sc.missions
       /\ remoteCompletions = sc.completions
       /\ now = sc.now
  /\ nextId = Len(remoteMissions) + Len(remoteCompletions) + 1
  /\ cache = LoadedCache(remoteMissions, remoteCompletions)
  /\ last = [op |-> "none"]
  /\ lastSet = EmptyMap
  /\ calls = <<>>
  /\ held = HeldAt(remoteMissions, 0) \cup HeldAt(remoteMissions, now)
  /\ apiBudget = 3 * MaxClicks
  /\ SyncIdle
  /\ uiMissions = MissionIds(remoteMissions, U1)
  /\ uiCompletions = TodayCompletions(remoteCompletions, U1)
  /\ handlers = <<>>
  /\ rtMissions = events
  /\ rtCompletions = 0
  /\ uiBudget = MaxClicks
  /\ HomeIdle

UiInit == UiStart(Scenarios, 0)

UiNext ==
  \/ handleAddMission
  \/ \E m \in Range(uiMissions) : handleCompleteMission(m)
  \/ \E m \in Range(uiMissions) : handleDeleteMission(m)
  \/ loadMissions
  \/ loadTodayCompletions
  \/ (\E i \in DOMAIN calls, res \in Outcomes : RemoteRuns(i, res)) /\ UNCHANGED <<batchVars, syncVars, homeVars, uiBudget>> /\ Publish /\ UiResume(handlers)
  \/ (\E i \in DOMAIN calls : Reply(i)) /\ UNCHANGED <<batchVars, syncVars, homeVars, uiBudget>> /\ Publish /\ UiResume(handlers)
  \/ (\E i \in DOMAIN ops, res \in Outcomes : BatchedSettles(i, res)) /\ Publish /\ UiResume(handlers) /\ UNCHANGED <<syncVars, homeVars, uiBudget>>
  \/ (\E l \in loops : RoundEnds(l)) /\ UNCHANGED <<cacheVars, apiVars, syncVars, appVars>>
  \/ (\E l \in loops : TimerFires(l)) /\ UNCHANGED <<cacheVars, apiVars, syncVars, appVars>>

UiSpec == UiInit /\ [][UiNext]_vars

\* a row of user_missions was updated in another session while TodoApp
\* shows two missions: the event of the update is still to be delivered,
\* and the missions entry of the cache has expired
RaceScenarios ==
  {[missions |-> <<[id |-> 1, user |-> U1], [id |-> 2, user |-> U1]>>,
    completions |-> <<[id |-> 3, user |-> U1, mission |-> 1]>>,
    now |-> 300001]}

RaceInit == UiStart(RaceScenarios, 1)

RaceSpec == RaceInit /\ [][UiNext]_vars

\* ------------------------------------------------------- ensureProfile
\* the calls of ensureProfile to come: the session check of Home and the
\* callback of onAuthStateChange
MaxEnsures == 2

\* a call of ensureProfile, as it stands when the cache had no profile and
\* the select was issued
NewEnsure(u) ==
  [user |-> u, pc |-> "select", found |-> FALSE, created |-> FALSE,
   outcome |-> "pending", inserts |-> 0,
   noRow |-> u \notin profiles,   \* the user had no profile at the call
   netErr |-> FALSE]              \* a request of the call failed on the network

\* `const cached = dataCache.get(cacheKey); if (cached) return cached`, then
\* the select of the profile is issued
ensureProfile(u) ==
  LET cached == GetResult(cache, ProfileKey(u), now)
      c == NewEnsure(u)
  IN /\ ensureBudget > 0
     /\ ensureBudget' = ensureBudget - 1
     /\ cache' = GetEffect(cache, ProfileKey(u), now)
     /\ ensures' = Append(ensures,
          IF cached # Null THEN [c EXCEPT !.pc = "done", !.outcome = "hit"]
          ELSE c)
     /\ UNCHANGED <<profiles, now, last, lastSet>>

\* the remote store runs `.select('*').eq('id', user.id).single()`
SelectRuns(i, res) ==
  LET c == ensures[i]
  IN /\ c.pc = "select"
     /\ ensures' = [ensures EXCEPT
          ![i] = [c EXCEPT !.pc = "selected",
                           !.found = res = "ok" /\ c.user \in profiles,
                           !.netErr = res = "error"]]
     /\ UNCHANGED <<profiles, ensureBudget, cacheVars>>

\* the call goes on after the select: `if (existingProfile && !fetchError)`
\* stores and returns the profile; otherwise the insert is issued
AfterSelect(c) ==
  IF c.found THEN [c EXCEPT !.pc = "done", !.outcome = "returned"]
  ELSE [c EXCEPT !.pc = "insert", !.inserts = @ + 1]

SelectReply(i) ==
  LET c == ensures[i]
      c1 == AfterSelect(c)
  IN /\ c.pc = "selected"
     /\ ensures' = [ensures EXCEPT ![i] = c1]
     /\ cache' = IF c1.pc = "done"
                 THEN SetEntry(cache, ProfileKey(c.user), <<c.user>>,
                               defaultTtl, now)
                 ELSE cache
     /\ UNCHANGED <<profiles, ensureBudget, now, last, lastSet>>

\* the remote store runs the insert: profiles.id is the primary key, so the
\* insert of a second row of the user fails
InsertRuns(i, res) ==
  LET c == ensures[i]
      ok == res = "ok" /\ c.user \notin profiles
  IN /\ c.pc = "insert"
     /\ profiles' = IF ok THEN profiles \cup {c.user} ELSE profiles
     /\ ensures' = [ensures EXCEPT
          ![i] = [c EXCEPT !.pc = "inserted", !.created = ok,
                           !.netErr = @ \/ res = "error"]]
     /\ UNCHANGED <<ensureBudget, cacheVars>>

\* `if (createError) throw createError; dataCache.set(cacheKey, newProfile)`;
\* the catch block logs the error and throws it again
InsertReply(i) ==
  LET c == ensures[i]
  IN /\ c.pc = "inserted"
     /\ ensures' = [ensures EXCEPT
          ![i] = [c EXCEPT !.pc = "done",
                           !.outcome = IF c.created THEN "returned"
                                       ELSE "thrown"]]
     /\ cache' = IF c.created
                 THEN SetEntry(cache, ProfileKey(c.user), <<c.user>>,
                               defaultTtl, now)
                 ELSE cache
     /\ UNCHANGED <<profiles, ensureBudget, now, last, lastSet>>

\* Home is mounted: the user has a profile or has none
ProfileInit ==
  /\ BatchIdle
  /\ CacheInit
  /\ ApiIdle
  /\ SyncIdle
  /\ UiIdle
  /\ ThrottleIdle
  /\ profiles \in {{}, {U1}}
  /\ ensures = <<>>
  /\ ensureBudget = MaxEnsures

ProfileNext ==
  \/ ensureProfile(U1) /\ UNCHANGED <<batchVars, apiVars, syncVars, uiVars, throttleVars>>
  \/ (\E i \in DOMAIN ensures, res \in Outcomes : SelectRuns(i, res)) /\ UNCHANGED <<batchVars, apiVars, syncVars, uiVars, throttleVars>>
  \/ (\E i \in DOMAIN ensures : SelectReply(i)) /\ UNCHANGED <<batchVars, apiVars, syncVars, uiVars, throttleVars>>
  \/ (\E i \in DOMAIN ensures, res \in Outcomes : InsertRuns(i, res)) /\ UNCHANGED <<batchVars, apiVars, syncVars, uiVars, throttleVars>>
  \/ (\E i \in DOMAIN ensures : InsertReply(i)) /\ UNCHANGED <<batchVars, apiVars, syncVars, uiVars, throttleVars>>

ProfileSpec == ProfileInit /\ [][ProfileNext]_vars

\* --------------------------------------------------------- useThrottle
\* the delay passed to useThrottle, in milliseconds
delay == 3
\* the latest time on the clock, and the calls of the throttled function
MaxClock == 9
MaxThrottled == 3

\* a call of the throttled function: func is executed at once when delay has
\* passed since the last execution (a pending timer is left alone);
\* otherwise the pending timer is cleared and a timer is set for the rest of
\* the delay
throttled ==
  /\ throttleBudget > 0
  /\ throttleBudget' = throttleBudget - 1
  /\ IF clock - lastExecutedRef >= delay
     THEN /\ lastExecutedRef' = clock
          /\ executions' = Append(executions, clock)
          /\ UNCHANGED timeoutRef
     ELSE /\ timeoutRef' = Some(clock + (delay - (clock - lastExecutedRef)))
          /\ UNCHANGED <<lastExecutedRef, executions>>
  /\ UNCHANGED clock

\* the callback of the timer runs, at the time the timer was set for or
\* later: `lastExecutedRef.current = Date.now(); func(...args)`
TimeoutFires ==
  /\ timeoutRef # Null
  /\ clock >= timeoutRef[1]
  /\ lastExecutedRef' = clock
  /\ executions' = Append(executions, clock)
  /\ timeoutRef' = Null
  /\ UNCHANGED <<clock, throttleBudget>>

\* a millisecond passes
ClockTick ==
  /\ clock < MaxClock
  /\ clock' = clock + 1
  /\ UNCHANGED <<lastExecutedRef, timeoutRef, executions, throttleBudget>>

\* the hook was just mounted: lastExecutedRef.current is 0 and Date.now()
\* is at least delay
ThrottleInit ==
  /\ BatchIdle
  /\ CacheInit
  /\ ApiIdle
  /\ SyncIdle
  /\ UiIdle
  /\ ProfileIdle
  /\ clock = delay
  /\ lastExecutedRef = 0
  /\ timeoutRef = Null
  /\ executions = <<>>
  /\ throttleBudget = MaxThrottled

ThrottleNext ==
  \/ throttled /\ UNCHANGED <<batchVars, cacheVars, apiVars, syncVars, uiVars, profileVars>>
  \/ TimeoutFires /\ UNCHANGED <<batchVars, cacheVars, apiVars, syncVars, uiVars, profileVars>>
  \/ ClockTick /\ UNCHANGED <<batchVars, cacheVars, apiVars, syncVars, uiVars, profileVars>>

ThrottleSpec == ThrottleInit /\ [][ThrottleNext]_vars

\* ------------------------------------------------------------ vocabulary
Invoked(i) == ops[i].calls > 0
Settled(i) == ops[i].st \in {"resolved", "rejected"}
InFlight(i) == ops[i].st = "running"
\* the operation failed: its promise rejected, or its remote delete failed
Failed(i) == ops[i].st = "rejected" \/ ops[i].remote = "error"
Occurrences(q, i) == Cardinality({n \in DOMAIN q : q[n] = i})
Idle == ~processing /\ loops = {}
Drained == budget = 0 /\ queue = <<>> /\ loops = {}

\* ----------------------------------------------------------------- C1
\* C1: every operation passed to add is invoked exactly once: it is never
\* invoked a second time, and while it has not been invoked it waits in the
\* queue (once) with a drain loop active that will take it; this holds
\* wherever the queue stood when add was called and whether the operations
\* of its round resolve or fail.
C1_InvokedExactlyOnce ==
  \A i \in DOMAIN ops :
    /\ ops[i].calls <= 1
    /\ Occurrences(started, i) = ops[i].calls
    /\ Occurrences(queue, i) = 1 - ops[i].calls
    /\ ops[i].calls = 0 => loops # {}

\* an operation of each moment of add (idle, round in flight, pause) was
\* invoked once, one of them failed, and the queue has drained
C1_Witness ==
  /\ Idle /\ queue = <<>>
  /\ \E i, j, k \in DOMAIN ops :
       /\ ops[i].addedAt = "idle" /\ ops[j].addedAt = "awaitAll"
       /\ ops[k].addedAt = "pause"
       /\ ops[i].calls = 1 /\ ops[j].calls = 1 /\ ops[k].calls = 1
       /\ Failed(i) /\ ops[j].round = ops[k].round

\* ----------------------------------------------------------------- C2
\* C2 (as stated): after M > batchSize consecutive add calls on an idle
\* queue, the drain takes exactly ceil(M / batchSize) rounds.
C2_CeilRounds ==
  Drained => rounds = CeilDiv(burst, batchSize)

\* C2 (amended): the first add starts a round that holds the first operation
\* alone, the other M - 1 operations follow in rounds of up to batchSize, so
\* that the drain takes exactly 1 + ceil((M - 1) / batchSize) rounds.
C2_FirstRoundAlone ==
  /\ \A i \in DOMAIN ops :
       Invoked(i) =>
         ops[i].round = IF i = 1 THEN 1 ELSE 2 + ((i - 2) \div batchSize)
  /\ Drained => rounds = 1 + CeilDiv(burst - 1, batchSize)

\* twelve operations have drained in three rounds: 1, 10 and 1
C2_Witness ==
  /\ Drained
  /\ burst = batchSize + 2
  /\ rounds = 3
  /\ \A i \in DOMAIN ops : Settled(i)

\* ----------------------------------------------------------------- C3
\* C3: a round completes only once all of its members have settled: the
\* loop is never in its pause with a member of the round still in flight,
\* and every operation in flight belongs to the round the loop is awaiting.
C3_RoundWaitsForAll ==
  /\ \A l \in loops :
       l.pc = "pause" => \A i \in Range(l.batch) : Settled(i)
  /\ \A i \in DOMAIN ops :
       InFlight(i) =>
         \E l \in loops : l.pc = "awaitAll" /\ i \in Range(l.batch)

\* ----------------------------------------------------------------- C4
\* C4: an operation that fails inside a round does not prevent its siblings
\* from being started (every member of a round has been invoked) nor from
\* settling (a sibling in flight can still settle), and does not prevent the
\* next round: while operations wait in the queue the drain loop is alive.
C4_FailureIsolated ==
  \A i \in DOMAIN ops :
    Failed(i) =>
      /\ \A l \in loops : \A j \in Range(l.batch) : Invoked(j)
      /\ \A j \in DOMAIN ops :
           (ops[j].round = ops[i].round /\ InFlight(j) /\ ops[j].kind # "hang") =>
             \/ ENABLED ApiSettles(j, "ok")
             \/ ENABLED RawSettles(j, "ok")
      /\ queue # <<>> => processing /\ Cardinality(loops) = 1

\* a raw operation rejected and an api operation failed in one round, their
\* sibling resolved after the rejection, and a later round was started
C4_Witness ==
  \E i, j, k \in DOMAIN ops :
    /\ ops[i].st = "rejected"
    /\ ops[j].round = ops[i].round /\ ops[j].st = "resolved" /\ i # j
    /\ ops[j].remote = "ok"
    /\ ops[k].round > ops[i].round

\* ----------------------------------------------------------------- C5
\* C5: at every moment at most one drain loop is active (and processing
\* tells whether one is); an add made while a drain is active only appends
\* the operation to the queue, starts no loop and no round, and the
\* operation is later invoked by the loop that was running at that add.
C5_AddWhileDraining ==
  /\ Cardinality(loops) <= 1
  /\ processing <=> loops # {}
  /\ \A i \in DOMAIN ops :
       /\ ops[i].addedAt # "idle" =>
            /\ \E j \in DOMAIN ops :
                 j < i /\ ops[j].addedAt = "idle" /\ ops[j].addedIn = ops[i].addedIn
            /\ ops[i].calls = 0 =>
                 /\ i \in Range(queue)
                 /\ \E l \in loops : l.id = ops[i].addedIn
       /\ Invoked(i) => ops[i].startedBy = ops[i].addedIn
       /\ ops[i].addedIn \in 1..nloops

C5_SingleLoop ==
  [][/\ C5_AddWhileDraining'
     /\ (processing /\ Len(ops') = Len(ops) + 1) =>
          /\ queue' = Append(queue, Len(ops'))
          /\ UNCHANGED <<processing, loops, nloops, rounds, started>>
          /\ \A i \in DOMAIN ops : ops'[i] = ops[i]]_vars

\* operations added while a round was in flight and during a pause were
\* invoked by the one loop that was running then
C5_Witness ==
  \E i, j \in DOMAIN ops :
    /\ ops[i].addedAt = "awaitAll" /\ ops[j].addedAt = "pause"
    /\ Invoked(i) /\ Invoked(j)
    /\ ops[i].startedBy = ops[i].addedIn /\ ops[j].startedBy = ops[j].addedIn
    /\ nloops = 1

\* ----------------------------------------------------------------- C6
\* C6: the queue is Idle (processing = false) only when it is empty; an add
\* from Idle leaves the queue Draining (processing = true) when it returns;
\* the loop returns to Idle only when the queue is empty.
C6_IdleOnlyWhenEmpty ==
  [][/\ (~processing => queue = <<>>)'
     /\ (~processing /\ Len(ops') = Len(ops) + 1) => processing'
     /\ (processing /\ ~processing') => (queue = <<>> /\ queue' = <<>>)]_vars

\* the loop went back to Idle after more than one round
C6_Witness ==
  /\ ~processing /\ queue = <<>> /\ loops = {}
  /\ rounds >= 2
  /\ \E i \in DOMAIN ops : ops[i].addedAt # "idle" /\ Invoked(i)

\* ----------------------------------------------------------------- C7
\* C7: when every invoked operation eventually settles, then for any finite
\* number of add calls made at any moments, eventually and for good the
\* queue is empty, no drain loop is running and every operation that was
\* added has been invoked and has settled, with its caller's promise
\* settled.
C7_AllSettled ==
  /\ queue = <<>> /\ ~processing /\ loops = {}
  /\ \A i \in DOMAIN ops :
       /\ Invoked(i) /\ Settled(i)
       /\ ops[i].kind = "api" => ops[i].caller \in {"resolved", "rejected"}

C7_EventuallyDrained == <>[]C7_AllSettled

\* everything has settled, and one operation was added during the pause
\* that followed the last round (the queue was empty then: it is alone in
\* its round)
C7_Witness ==
  /\ C7_AllSettled
  /\ \E k \in DOMAIN ops :
       /\ ops[k].addedAt = "pause"
       /\ ops[k].caller = "resolved"
       /\ \A j \in DOMAIN ops : j # k => ops[j].round # ops[k].round

\* ----------------------------------------------------------------- C8
\* C8: the promise returned by deleteMission / uncompleteMission settles
\* exactly once; it rejects when and only when the caller's own remote
\* delete failed and resolves when and only when it succeeded (so that
\* another caller's failure never rejects it); the remote call of an
\* operation is issued at most once, also after it failed.
C8_CallerPromise ==
  \A i \in DOMAIN ops :
    ops[i].kind = "api" =>
      /\ ops[i].calls <= 1
      /\ ops[i].settles <= 1
      /\ ops[i].settles = 1 <=> ops[i].caller \in {"resolved", "rejected"}
      /\ ops[i].caller = "rejected" <=> ops[i].remote = "error"
      /\ ops[i].caller = "resolved" <=> ops[i].remote = "ok"
      /\ ops[i].remote = "error" => (i \notin Range(queue) /\ ops[i].calls = 1)

\* two callers in one round: the delete of one failed, its promise is
\* rejected and the promise of the other is resolved
C8_Witness ==
  \E i, j \in DOMAIN ops :
    /\ ops[i].kind = "api" /\ ops[j].kind = "api"
    /\ ops[i].round = ops[j].round /\ ops[i].round > 0
    /\ ops[i].caller = "rejected" /\ ops[j].caller = "resolved"
    /\ Idle

\* ----------------------------------------------------------------- C9
\* C9: when an operation of a round never settles (its network call hangs)
\* the round never completes and no operation of a later round is started:
\* once a hanging operation has been invoked, the loop stays at the await of
\* that round, which remains the last round started.
C9_HangingStallsRound ==
  \A i \in DOMAIN ops :
    (ops[i].kind = "hang" /\ Invoked(i)) =>
      /\ \E l \in loops : l.pc = "awaitAll" /\ i \in Range(l.batch)
      /\ rounds = ops[i].round

\* ---------------------------------------------------------------- C10
\* C10: every round contains at most batchSize operations, the operations
\* of a round are taken from the head of the queue (whatever is still
\* queued was added after everything started), and the operations are
\* started in the order in which they were added.
C10_FifoRounds ==
  /\ \A l \in loops : Len(l.batch) \in 1..batchSize
  /\ \A r \in 1..rounds :
       Cardinality({i \in DOMAIN ops : ops[i].round = r}) \in 1..batchSize
  /\ \A a, b \in DOMAIN started : a < b => started[a] < started[b]
  /\ \A a, b \in DOMAIN queue : a < b => queue[a] < queue[b]
  /\ \A a \in DOMAIN started, b \in DOMAIN queue : started[a] < queue[b]
  /\ \A i, j \in DOMAIN ops :
       (Invoked(i) /\ Invoked(j) /\ i < j) => ops[i].round <= ops[j].round

\* a full round of batchSize operations is in flight while a later
\* operation still waits in the queue
C10_Witness ==
  \E l \in loops :
    /\ Len(l.batch) = batchSize
    /\ queue # <<>>
    /\ rounds = 2

\* ------------------------------------------------- DataCache vocabulary
\* p occurs in key as a substring
Contains(key, p) ==
  \E i \in 0..Len(key) : \E j \in i..Len(key) : SubSeq(key, i + 1, j) = p

\* the map m without the key k, and nothing else changed
SameExcept(m, pre, k) ==
  /\ DOMAIN m = DOMAIN pre \ {k}
  /\ \A x \in DOMAIN m : m[x] = pre[x]

\* ---------------------------------------------------------------- C11
\* C11: after set(k, v, t) at the time s with no later write to k, get(k)
\* at the time now returns v when now - s <= t (still at now - s = t) and
\* returns absent when now - s > t.
C11_TtlBoundary ==
  (last.op = "get" /\ last.key \in DOMAIN lastSet) =>
    LET w == lastSet[last.key] IN
      /\ last.at - w.timestamp <= w.ttl => last.ret = Some(w.data)
      /\ last.at - w.timestamp > w.ttl => last.ret = Null

\* a get at exactly now - s = t, with t > 0, returned the value
C11_Witness ==
  /\ last.op = "get"
  /\ last.key \in DOMAIN lastSet
  /\ lastSet[last.key].ttl = 1
  /\ last.at - lastSet[last.key].timestamp = 1
  /\ last.ret = Some(lastSet[last.key].data)

\* ---------------------------------------------------------------- C12
\* C12: a get(k) that finds k expired removes k from the map and leaves
\* every other entry unchanged; a get(k) that finds k valid or absent
\* changes nothing; the passage of time alone removes no entry.
C12_GetFrame ==
  last.op = "get" =>
    LET k == last.key
        pre == last.pre
    IN IF k \in DOMAIN pre /\ last.at - pre[k].timestamp > pre[k].ttl
         THEN SameExcept(cache, pre, k)
         ELSE cache = pre

C12_LazyExpiry ==
  [][/\ C12_GetFrame'
     /\ now' # now => cache' = cache]_vars

\* a get removed its expired key and left the two other entries, one of
\* them expired as well
C12_Witness ==
  /\ last.op = "get"
  /\ last.key \in DOMAIN last.pre
  /\ last.key \notin DOMAIN cache
  /\ Cardinality(DOMAIN cache) = 2
  /\ \E x \in DOMAIN cache : now - cache[x].timestamp > cache[x].ttl

\* ---------------------------------------------------------------- C13
\* C13: set overwrites and resets the timer: a set(k, v2, t2) at s2 leaves
\* the entry (v2, s2, t2) under k whatever entry (v1, s1, t1) was there,
\* expired or not, and what get(k) returns depends on that entry alone: v2
\* exactly while now - s2 <= t2.
C13_SetResetsTimer ==
  /\ last.op = "set" =>
       /\ cache[last.key] = [data |-> last.arg[1], timestamp |-> last.at,
                             ttl |-> last.arg[2]]
       /\ \A x \in DOMAIN last.pre : x # last.key => cache[x] = last.pre[x]
  /\ (last.op = "get" /\ last.key \in DOMAIN last.pre) =>
       LET e == last.pre[last.key] IN
         last.ret = IF last.at - e.timestamp <= e.ttl THEN Some(e.data) ELSE Null

\* the second set came after the first entry had expired, with another
\* value, and the entry now carries the time of the second set
C13_Witness ==
  /\ last.op = "set"
  /\ last.key \in DOMAIN last.pre
  /\ LET o == last.pre[last.key] IN
       /\ last.at - o.timestamp > o.ttl
       /\ o.data # last.arg[1]
       /\ o.ttl # last.arg[2]
  /\ cache[last.key].timestamp = last.at
  /\ now > last.at
  /\ GetResult(cache, last.key, now) = Some(last.arg[1])

\* ---------------------------------------------------------------- C14
\* C14: after invalidatePattern(p) no key that contains p as a substring
\* remains, and every entry whose key does not contain p is still there
\* with its value, timestamp and ttl.
C14_InvalidatePattern ==
  last.op = "invalidatePattern" =>
    /\ \A k \in DOMAIN cache : ~Contains(k, last.key)
    /\ \A k \in DOMAIN last.pre :
         ~Contains(k, last.key) => (k \in DOMAIN cache /\ cache[k] = last.pre[k])
    /\ DOMAIN cache \subseteq DOMAIN last.pre

\* missions:u1, missions:u2 and completions:u1:2024-01-01 were cached and
\* the pattern u1 left missions:u2 alone
C14_Witness ==
  /\ last.op = "invalidatePattern"
  /\ last.key = U1
  /\ DOMAIN last.pre = Keys
  /\ DOMAIN cache = {MissionsKey(U2)}
  /\ GetResult(cache, MissionsKey(U2), now) # Null

\* ---------------------------------------------------------------- C15
\* C15: after clear() the cache holds no entry, whatever the ttls and ages
\* of the entries were, and get of any key returns absent until a later
\* set of that key.
C15_ClearAll ==
  /\ last.op = "clear" => DOMAIN cache = {}
  /\ (last.op = "get" /\ last.key \notin DOMAIN lastSet) => last.ret = Null

\* clear emptied a cache that held an expired and a valid entry
C15_Witness ==
  /\ last.op = "clear"
  /\ DOMAIN cache = {}
  /\ \E x, y \in DOMAIN last.pre :
       /\ last.at - last.pre[x].timestamp > last.pre[x].ttl
       /\ last.at - last.pre[y].timestamp <= last.pre[y].ttl

\* ---------------------------------------------------------------- C16
\* C16: delete(k) removes the entry of k when there is one and changes
\* nothing when there is none (so that a second delete(k) changes nothing);
\* every entry with another key is unchanged.
C16_DeleteFrame ==
  last.op = "delete" =>
    /\ SameExcept(cache, last.pre, last.key)
    /\ last.key \notin DOMAIN last.pre => cache = last.pre

\* delete removed an entry and left the two others
C16_Witness ==
  /\ last.op = "delete"
  /\ last.key \in DOMAIN last.pre
  /\ last.key \notin DOMAIN cache
  /\ Cardinality(DOMAIN cache) = 2

\* ------------------------------------------------------ api vocabulary
Reads == {n \in DOMAIN calls : calls[n].fn \in ReadFns}
Done(n) == calls[n].pc = "done"

\* the entry that the call found under its key when it began was valid
FoundValid(c) ==
  LET key == KeyOf(c.fn, c.user)
  IN /\ key \in DOMAIN c.pre
     /\ c.at - c.pre[key].timestamp <= c.pre[key].ttl

\* ... or was there and had expired
FoundExpired(c) ==
  LET key == KeyOf(c.fn, c.user)
  IN /\ key \in DOMAIN c.pre
     /\ c.at - c.pre[key].timestamp > c.pre[key].ttl

\* the maps m1 and m2 differ at most under the key k
AgreeOff(m1, m2, k) ==
  /\ DOMAIN m1 \ {k} = DOMAIN m2 \ {k}
  /\ \A x \in DOMAIN m1 \ {k} : m1[x] = m2[x]

\* ---------------------------------------------------------------- C17
\* C17 (as stated, the part that fails): when the remote read of
\* getUserMissions / getTodayCompletions fails, the cache is as it was
\* before the call (for a call with no step of another call in between).
C17_FailedReadLeavesCache ==
  \A n \in Reads :
    (Done(n) /\ calls[n].outcome = "thrown" /\ calls[n].quiet)
      => calls[n].post = calls[n].pre

\* C17 (amended): with useCache = true and a valid entry the cached value
\* is returned and no remote call is issued; otherwise one remote read is
\* issued; when it succeeds its result is returned and stored under the
\* key (missions:<userId> with the ttl 300000, completions:<userId>:<date>
\* with the ttl 60000) with the time of the reply; when it fails the error
\* of the remote store is thrown and the cache is as it was before the call
\* except that, with useCache = true, an expired entry under the key has
\* been removed by the lookup. With useCache = false the cache is not
\* consulted (an entry under the key changes nothing before the reply) and
\* is populated all the same.
C17_ReadThrough ==
  \A n \in Reads :
    LET c == calls[n]
        key == KeyOf(c.fn, c.user)
        ttl == IF c.fn = "getUserMissions" THEN 300000 ELSE 60000
    IN /\ (c.useCache /\ FoundValid(c)) =>
            /\ Done(n) /\ c.outcome = "hit"
            /\ c.ret = c.pre[key].data
            /\ c.remoteCalls = 0
            /\ c.post = c.pre
       /\ ~(c.useCache /\ FoundValid(c)) =>
            /\ c.outcome # "hit"
            /\ c.remoteCalls = 1
            /\ ~c.useCache => c.issue = c.pre
            /\ (Done(n) /\ c.res = "ok") =>
                 /\ c.outcome = "returned"
                 /\ c.ret = c.data
                 /\ key \in DOMAIN c.post
                 /\ c.post[key] =
                      [data |-> c.data, timestamp |-> c.doneAt, ttl |-> ttl]
                 /\ c.quiet => AgreeOff(c.post, c.pre, key)
            /\ (Done(n) /\ c.res = "error") =>
                 /\ c.outcome = "thrown"
                 /\ c.thrown = c.rerr /\ c.rerr # 0
                 /\ c.quiet =>
                      IF c.useCache /\ FoundExpired(c)
                      THEN SameExcept(c.post, c.pre, key)
                      ELSE c.post = c.pre

\* a read with useCache = true found an expired entry, its remote read
\* failed, and the expired entry is gone
C17_Witness ==
  \E n \in Reads :
    /\ Done(n) /\ calls[n].outcome = "thrown" /\ calls[n].quiet
    /\ calls[n].useCache /\ FoundExpired(calls[n])
    /\ KeyOf(calls[n].fn, calls[n].user) \notin DOMAIN calls[n].post

\* ---------------------------------------------------------------- C18
\* C18: every list that getUserMissions(u) returns from the cache (a hit)
\* is a list that the remote store held for u at some moment no earlier
\* than the ttl of the entry before the read; so after a createMission
\* that succeeded for a user who has missions, no hit returns a list
\* without the older missions.
C18_HitWasHeld ==
  \A n \in DOMAIN calls :
    LET c == calls[n]
        ttl == c.pre[MissionsKey(c.user)].ttl
    IN (c.fn = "getUserMissions" /\ c.outcome = "hit") =>
         \E h \in held :
           /\ h[1] = c.user
           /\ h[2] = c.ret
           /\ c.at - ttl <= h[3] /\ h[3] <= c.at

\* ---------------------------------------------------------------- C19
\* C19: createMission removes every key that contains missions:<user_id>
\* (and no other key) before it issues the remote insert, which it issues
\* once; when the insert fails, no key that contains missions:<user_id> is
\* in the cache when the call ends, whatever was stored in between, and
\* the error thrown to the caller is the error of the remote store.
C19_CreateInvalidates ==
  \A n \in DOMAIN calls :
    LET c == calls[n]
        key == MissionsKey(c.user)
    IN c.fn = "createMission" =>
         /\ DOMAIN c.issue = {k \in DOMAIN c.pre : ~Contains(k, key)}
         /\ \A k \in DOMAIN c.issue : c.issue[k] = c.pre[k]
         /\ c.remoteCalls = 1
         /\ c.res = "none" => c.pc = "remote"
         /\ (Done(n) /\ c.res = "error") =>
              /\ \A k \in DOMAIN c.post : ~Contains(k, key)
              /\ c.outcome = "thrown"
              /\ c.thrown = c.rerr /\ c.rerr # 0

\* createMission found missions:<user_id> in the cache and removed it, the
\* insert failed, and the error reached the caller with the key absent
C19_Witness ==
  \E n \in DOMAIN calls :
    LET c == calls[n]
        key == MissionsKey(c.user)
    IN /\ c.fn = "createMission"
       /\ key \in DOMAIN c.pre
       /\ key \notin DOMAIN c.issue
       /\ Done(n) /\ c.outcome = "thrown"
       /\ key \notin DOMAIN cache

\* ---------------------------------------------------------------- C20
\* C20: once every replay of the stored list has been attempted and has
\* ended, well or not, the record pendingOperations is absent from local
\* storage.
C20_RecordRemoved ==
  \A n \in DOMAIN syncs :
    LET s == syncs[n]
    IN (/\ s.parse = "ok"
        /\ \A k \in DOMAIN s.promises :
             PromiseState(s.promises[k], calls, ops) # "pending")
         => pending = Null

\* ---------------------------------------------------------------- C21
\* C21: after a call of syncPendingOperations that found a stored text
\* which JSON.parse rejects, no mutation was dispatched by the call and the
\* record pendingOperations is absent from local storage.
C21_MalformedDiscarded ==
  \A n \in DOMAIN syncs :
    syncs[n].parse = "threw" =>
      /\ syncs[n].promises = <<>>
      /\ pending = Null

\* --------------------------------------------------- TodoApp vocabulary
WriteKinds == {"add", "complete", "uncomplete", "delete"}
Writes == {n \in DOMAIN handlers : handlers[n].kind \in WriteKinds}

\* the answer of the remote store to the mutation of the handler h
MutationResult(h) ==
  IF h.via = "call" THEN calls[h.ref].res ELSE ops[h.ref].remote

\* ---------------------------------------------------------------- C22
\* C22: a write handler of TodoApp (add, complete / uncomplete, delete)
\* leaves `missions` and `completions` as they were when it was called
\* until its remote mutation has succeeded; when the mutation fails, an
\* alert is shown and both lists are as before the action (no alert is
\* shown when it succeeds). Changes made by a load that returns while the
\* handler waits are not counted.
C22_WriteAfterSuccess ==
  \A n \in Writes :
    LET h == handlers[n]
    IN /\ (h.pc = "await" /\ h.quiet) =>
            uiMissions = h.preM /\ uiCompletions = h.preC
       /\ h.outcome = "ok" => MutationResult(h) = "ok" /\ ~h.alerted
       /\ h.outcome = "failed" =>
            /\ MutationResult(h) = "error"
            /\ h.alerted
            /\ h.quiet => h.postM = h.preM /\ h.postC = h.preC

\* the delete of a mission failed: the alert was shown and the lists, which
\* are not empty, are as before
C22_Witness ==
  \E n \in Writes :
    LET h == handlers[n]
    IN /\ h.kind = "delete" /\ h.outcome = "failed" /\ h.alerted
       /\ h.preM # <<>> /\ h.preC # <<>>
       /\ uiMissions = h.preM /\ uiCompletions = h.preC

\* ---------------------------------------------------------------- C23
\* the mutation behind the promise p was sent to the remote store
Dispatched(p) ==
  \/ p.kind = "call" /\ calls[p.ref].remoteCalls > 0
  \/ p.kind = "op" /\ ops[p.ref].calls > 0

\* C23: over any sequence of 'online' events, the mutation of a stored
\* record is sent to the remote store by at most one call of
\* syncPendingOperations.
C23_ReplayAtMostOnce ==
  \A n1, n2 \in DOMAIN syncs :
    \A k \in DOMAIN syncs[n1].promises \cap DOMAIN syncs[n2].promises :
      (Dispatched(syncs[n1].promises[k]) /\ Dispatched(syncs[n2].promises[k]))
        => n1 = n2

\* ---------------------------------------------------------------- C24
\* the call k is a completeMission that returned with no step of another
\* call between its start and its return, it is the latest call, and the
\* cache is as it left it
CompletedAlone(k) ==
  /\ k = Len(calls)
  /\ calls[k].fn = "completeMission"
  /\ calls[k].outcome = "returned"
  /\ calls[k].quiet
  /\ calls[k].post = cache

\* C24: a getTodayCompletions(u) that is served from the cache right after
\* a completeMission(u, m) that succeeded alone returns the completions
\* that the remote store holds for u today.
C24_HitAfterComplete ==
  [][\A n \in DOMAIN calls' \ DOMAIN calls :
       LET h == calls'[n]
       IN (/\ calls # <<>>
           /\ CompletedAlone(Len(calls))
           /\ h.fn = "getTodayCompletions"
           /\ h.user = calls[Len(calls)].user
           /\ h.outcome = "hit")
          => Range(h.ret) = Range(TodayCompletions(remoteCompletions, h.user))]_vars

\* ---------------------------------------------------------------- C25
\* C25: once deleteMission(m) has resolved and every read that was in
\* flight has returned, the cache entry missions:<u> does not contain m.
C25_DeletedNotCached ==
  \A n \in DOMAIN handlers :
    LET h == handlers[n]
    IN (/\ h.kind = "delete"
        /\ h.outcome = "ok"
        /\ \A k \in DOMAIN calls : calls[k].pc = "done")
       => \/ MissionsKey(U1) \notin DOMAIN cache
          \/ h.mission \notin Range(cache[MissionsKey(U1)].data)

\* ---------------------------------------------------------------- C26
\* the keys of m that contain 'missions:' or 'completions:'
MissionOrCompletionKeys(m) ==
  {k \in DOMAIN m : Contains(k, MissionsPrefix) \/ Contains(k, CompletionsPrefix)}

\* m1 is m without the keys of gone, the other entries as they were
Removed(m1, m, gone) ==
  /\ DOMAIN m1 = DOMAIN m \ gone
  /\ \A k \in DOMAIN m1 : m1[k] = m[k]

\* C26: in the step in which the promise of deleteMission / uncompleteMission
\* is settled, a remote delete that succeeded has removed every key that
\* contains 'missions:' or 'completions:' (deleteMission) or exactly the key
\* completions:<userId>:<today> (uncompleteMission) and the promise is
\* resolved; a remote delete that failed has left the cache as it was and
\* the promise is rejected.
C26_BatchedCacheOnSuccess ==
  [][\A i \in DOMAIN ops :
       (ops[i].kind = "api" /\ ops[i].caller = "pending"
          /\ ops'[i].caller # "pending")
       => LET kind == handlers[HandlerOf(i)].kind
          IN IF ops'[i].remote = "ok"
             THEN /\ ops'[i].caller = "resolved"
                  /\ kind = "delete" =>
                       Removed(cache', cache, MissionOrCompletionKeys(cache))
                  /\ kind = "uncomplete" =>
                       Removed(cache', cache, {CompletionsKey(U1, Today)})
             ELSE /\ ops'[i].caller = "rejected"
                  /\ cache' = cache]_vars

\* deleteMission has resolved: of the entries of two users, only the
\* profile entry is left
C26_Witness ==
  \E n \in DOMAIN handlers :
    /\ handlers[n].kind = "delete"
    /\ handlers[n].outcome = "ok"
    /\ calls = <<>>
    /\ DOMAIN cache = {ProfileKey(U1)}

\* ---------------------------------------------------------------- C27
\* C27: when the user had no profile at two calls of ensureProfile and no
\* request failed on the network, at most one of the two calls issues the
\* insert of the profile and neither throws.
C27_OneInsert ==
  \A i, j \in DOMAIN ensures :
    (/\ i < j
     /\ ensures[i].noRow /\ ensures[j].noRow
     /\ ~ensures[i].netErr /\ ~ensures[j].netErr)
    => /\ ensures[i].inserts + ensures[j].inserts <= 1
       /\ ensures[i].outcome # "thrown"
       /\ ensures[j].outcome # "thrown"

\* ---------------------------------------------------------------- C28
\* C28: whatever the user did and whatever was reloaded, the progress that
\* TodoApp displays is between 0 and 100, and it is 0 when `missions` is
\* empty.
C28_ProgressInRange ==
  /\ Progress(uiMissions, uiCompletions) \in 0..100
  /\ uiMissions = <<>> => Progress(uiMissions, uiCompletions) = 0

\* ---------------------------------------------------------------- C29
\* C29: two executions of func are at least delay apart, and no timer is
\* pending that was set for a time at or before the last execution.
C29_ExecutionsApart ==
  /\ \A k \in 1..(Len(executions) - 1) :
       executions[k + 1] - executions[k] >= delay
  /\ timeoutRef # Null => timeoutRef[1] > lastExecutedRef

\* ---------------------------------------------------------------- C30
\* the record at k of the sync s went to the entry point of its type
DispatchedByType(s, k) ==
  LET rec == s.list[k]
      p == s.promises[k]
  IN IF rec.type = "create_mission"
     THEN /\ p.kind = "call"
          /\ p.ref \in DOMAIN calls
          /\ calls[p.ref].fn = "createMission"
          /\ calls[p.ref].user = rec.user
     ELSE IF rec.type = "complete_mission"
     THEN /\ p.kind = "call"
          /\ p.ref \in DOMAIN calls
          /\ calls[p.ref].fn = "completeMission"
          /\ calls[p.ref].user = rec.user
          /\ calls[p.ref].mission = rec.mission
     ELSE IF rec.type = "delete_mission"
     THEN /\ p.kind = "op"
          /\ p.ref \in DOMAIN ops
          /\ ops[p.ref].kind = "api"
     ELSE p.kind = "value"

\* what holds of every call of syncPendingOperations
SyncContained ==
  \A n \in DOMAIN syncs :
    LET s == syncs[n]
        all == PromiseAll(s.promises, calls, ops)
    IN /\ s.result \in {"none", "noRecord", "removed", "logged"}
       /\ s.pc = "done" <=> s.result # "none"
       /\ s.result = "noRecord" => s.promises = <<>>
       /\ Len(s.promises) = Len(s.list)
       /\ \A k \in DOMAIN s.list : DispatchedByType(s, k)
       /\ (s.parse = "ok" /\ s.result = "logged") =>
            \E k \in DOMAIN s.list :
              /\ s.list[k].type # "other"
              /\ PromiseState(s.promises[k], calls, ops) = "rejected"
       /\ (s.parse = "ok" /\ all = "rejected") => s.result = "logged"
       /\ (s.parse = "ok" /\ all = "fulfilled") => s.result = "removed"

\* C30: a call of syncPendingOperations never ends rejected: with no stored
\* record it returns and nothing else changes (no remote call, no queued
\* operation, cache and localStorage as they were); each known record goes
\* to the entry point of its type and a record of an unknown type to none;
\* a sync ends in the catch block exactly when the replay of a known record
\* was rejected.
C30_SyncNeverRejects ==
  [][/\ SyncContained'
     /\ (Len(syncs') = Len(syncs) + 1 /\ syncs'[Len(syncs')].result = "noRecord")
          => UNCHANGED <<batchVars, cacheVars, apiVars, pending, appVars>>]_vars

\* a sync of an unknown record and a create_mission ended in the catch
\* block, because the insert failed
C30_Witness ==
  \E n \in DOMAIN syncs :
    /\ syncs[n].list = <<OtherRec, CreateRec>>
    /\ syncs[n].result = "logged"
    /\ syncs[n].promises[1].kind = "value"
    /\ calls[syncs[n].promises[2].ref].outcome = "thrown"

====
